---- MODULE Spec2Model ----
(***************************************************************************)
(* Model of the Jerkins AI decision loop                                   *)
(* (custom_components/jerkins_ai/__init__.py, const.py).                   *)
(*                                                                         *)
(* Python values are encoded uniformly:                                    *)
(*   - a str is a sequence of tokens; a token is an indivisible piece of   *)
(*     text ("light", "turn_on") or a one-character separator (".", "_",   *)
(*     " ").  "" is <<>>.  Prefix, substring, split and replace are        *)
(*     computed on the token sequence.                                     *)
(*   - None and a non-str scalar are the sentinel sequences NoneV, IntV.   *)
(*   - a dict read with .get() is a record whose absent keys hold Missing. *)
(* One update cycle (async_update) is cut at its real suspension points:   *)
(* the POST to the reasoning endpoint and the platform service call.       *)
(* Everything between two suspension points runs atomically on the event   *)
(* loop and is one action.                                                 *)
(***************************************************************************)
EXTENDS Integers, Sequences, FiniteSets, TLC

VARIABLES
    hass_states,      \* hass.states: the set of State objects of the platform
    sensors,          \* self.sensors
    zone_mappings,    \* self.zone_mappings  (sensor id -> zone)
    action_mappings,  \* self.action_mappings (zone -> list of actions)
    entry_data,       \* self.entry.data, the persisted configuration record
    llm_url,          \* self.llm_url
    unsub,            \* self._unsubscribe_polling is set
    loaded,           \* the entry's place in hass.data[DOMAIN]: "new", "loaded"
    pc,               \* per invocation of async_update: where it is suspended
    sensor_data,      \* per invocation: the local sensor_data (the payload sent)
    elapsed,          \* per invocation: time spent inside async_timeout.timeout(30)
    trace,            \* per invocation: the stages it has gone through, in order
                      \* (kept after it returns, until the slot is taken again
                      \* or another invocation returns)
    call,             \* per invocation: the hass.services.async_call it awaits
    escaped,          \* an exception has left async_update
    recording,        \* history is kept: answer records the bodies received
    answer,           \* per invocation: the body its POST was answered with
                      \* (history variable, kept as long as trace is)
    fn,               \* the last application of one of the pure functions:
                      \* its name, its arguments and its result
    written,          \* history: per key, the value of the last mutation call
                      \* that succeeded (kept when recording)
    registry,         \* the keys of hass.data[DOMAIN], in insertion order
    services,         \* the three services are registered
    inst,             \* per config entry: its life cycle, whether its timer is
                      \* subscribed, the invocations of async_update in flight
    force,            \* the call of force_update_service in progress, or the
                      \* last one that ended
    hist              \* history (kept when hist.on): whether an invocation has
                      \* ended in a failure, and per invocation whether it
                      \* started after that

vars == <<hass_states, sensors, zone_mappings, action_mappings, entry_data,
          llm_url, unsub, loaded, pc, sensor_data, elapsed, trace, call, escaped,
          recording, answer, fn, written, registry, services, inst, force, hist>>

-----------------------------------------------------------------------------
(* Bounds of the model *)

\* Number of invocations of async_update that may be outstanding at once.
MaxTasks == 2

\* Largest amount of time one Tick lets pass.
TickStep == 15

Tasks == 1..MaxTasks

-----------------------------------------------------------------------------
(* Python values *)

NoneV   == <<"<None>">>
IntV    == <<"<int>">>
Missing == <<"<missing>">>

Truthy(v) == v # NoneV /\ v # <<>> /\ v # Missing

IsStr(v) == v \notin {NoneV, IntV, Missing}

\* dict.get(k) / dict.get(k, default) on a function used as a dict
Get(d, k, default) == IF k \in DOMAIN d THEN d[k] ELSE default

\* d[k] = v
Put(d, k, v) == [x \in DOMAIN d \cup {k} |-> IF x = k THEN v ELSE d[x]]

\* str.lower(), token by token
LowerTok(tok) ==
    CASE tok = "Kitchen" -> "kitchen"
      [] tok = "Light"   -> "light"
      [] tok = "Living"  -> "living"
      [] tok = "Room"    -> "room"
      [] tok = "TV"      -> "tv"
      [] tok = "Vacuum"  -> "vacuum"
      [] tok = "ON"      -> "on"
      [] tok = "Open"    -> "open"
      [] OTHER           -> tok

Lower(s) == [i \in 1..Len(s) |-> LowerTok(s[i])]

\* str.startswith(p)
StartsWith(s, p) == Len(p) <= Len(s) /\ SubSeq(s, 1, Len(p)) = p

\* sub in s
Contains(s, sub) ==
    \E i \in 1..(Len(s) - Len(sub) + 1) : SubSeq(s, i, i + Len(sub) - 1) = sub

\* "." in s
HasDot(s) == \E i \in 1..Len(s) : s[i] = "."

FirstDot(s) == CHOOSE i \in 1..Len(s) : s[i] = "." /\ \A j \in 1..(i - 1) : s[j] # "."

\* s.split(".", 1)[0] and [1], for s with a dot
SplitDomain(s)  == SubSeq(s, 1, FirstDot(s) - 1)
SplitService(s) == SubSeq(s, FirstDot(s) + 1, Len(s))

\* s.replace("_", ""), s.replace("_", " ")
RECURSIVE ReplaceUnderscore(_, _)
ReplaceUnderscore(s, by) ==
    IF s = <<>> THEN <<>>
    ELSE (IF Head(s) = "_" THEN by ELSE <<Head(s)>>) \o ReplaceUnderscore(Tail(s), by)

-----------------------------------------------------------------------------
(* const.py *)

SUPPORTED_DOMAINS ==
    { <<"light">>, <<"switch">>, <<"climate">>, <<"cover">>, <<"media_player">>,
      <<"fan">>, <<"automation">>, <<"script">>, <<"binary_sensor">> }

DEFAULT_POLLING_INTERVAL == 60

\* async_timeout.timeout(30)
LLM_TIMEOUT == 30

-----------------------------------------------------------------------------
(* The universe the runs draw from *)

S1 == <<"binary_sensor", ".", "door">>
S2 == <<"sensor", ".", "temp">>

Kitchen == <<"kitchen">>
Attic   == <<"attic">>

LightTurnOn  == <<"light", ".", "turn_on">>
ScriptNight  == <<"script", ".", "goodnight">>
VacuumStart  == <<"vacuum", ".", "start">>
Notify       == <<"notify">>

\* State objects (entity_id, name, state) the platform may hold
StS1    == [entity_id |-> S1, name |-> <<"door">>, state |-> <<"on">>]
StS2    == [entity_id |-> S2, name |-> <<"temp">>, state |-> <<"21">>]
StLight == [entity_id |-> <<"light", ".", "kitchen">>,
            name |-> <<"Kitchen", " ", "Light">>, state |-> <<"off">>]

\* The State objects that come and go during a run
StateUniverse == {StLight}

Url == <<"http://llm">>

\* Subclasses of Exception a stage may raise
ExceptionClasses == {"TimeoutError", "ClientError", "TypeError", "AttributeError"}

-----------------------------------------------------------------------------
(* CapabilityResolver: _get_entities_for_zone, _validate_zone_actions *)

\* state.domain
StateDomain(st) == IF HasDot(st.entity_id) THEN SplitDomain(st.entity_id) ELSE st.entity_id

ZoneName(zone_id) ==
    IF StartsWith(zone_id, <<"zone", ".">>) THEN SplitService(zone_id) ELSE zone_id

\* The entity ids of the zone (the list of the code, without its order).
GetEntitiesForZone(zone_id, states) ==
    LET zone_name == ZoneName(zone_id)
        zone_key  == ReplaceUnderscore(Lower(zone_name), <<>>)
        zone_text == ReplaceUnderscore(Lower(zone_name), <<" ">>)
    IN  { st.entity_id : st \in
            { x \in states :
                /\ StateDomain(x) \in SUPPORTED_DOMAINS
                /\ \/ Contains(Lower(x.entity_id), zone_key)
                   \/ Contains(IF Truthy(x.name) THEN Lower(x.name) ELSE <<>>, zone_text) } }

\* The test of one configured action, without lines 289's exemption of
\* script and automation
ActionStillValidNoExemption(action, zone_entities) ==
    IF HasDot(action)
    THEN LET domain == SplitDomain(action)
         IN  /\ domain \in SUPPORTED_DOMAINS
             /\ \E e \in zone_entities : StartsWith(e, domain \o <<".">>)
    ELSE TRUE

\* The test of one configured action, a custom action asking for an entity
\* of the zone
ActionStillValidCustomNeedsEntity(action, zone_entities) ==
    IF HasDot(action)
    THEN LET domain == SplitDomain(action)
         IN  /\ domain \in SUPPORTED_DOMAINS
             /\ \/ \E e \in zone_entities : StartsWith(e, domain \o <<".">>)
                \/ domain \in {<<"script">>, <<"automation">>}
    ELSE zone_entities # {}

\* The test of one configured action in _validate_zone_actions
ActionStillValid(action, zone_entities) ==
    IF HasDot(action)
    THEN LET domain == SplitDomain(action)
         IN  /\ domain \in SUPPORTED_DOMAINS
             /\ \/ \E e \in zone_entities : StartsWith(e, domain \o <<".">>)
                \/ domain \in {<<"script">>, <<"automation">>}
    ELSE TRUE

ValidateZoneActions(zone_id, configured_actions, states) ==
    LET zone_entities == GetEntitiesForZone(zone_id, states)
    IN  SelectSeq(configured_actions, LAMBDA a : ActionStillValid(a, zone_entities))

InList(x, list) == \E i \in 1..Len(list) : list[i] = x

-----------------------------------------------------------------------------
(* SnapshotBuilder: _collect_sensor_data *)

StateOf(entity_id, states) ==
    IF \E st \in states : st.entity_id = entity_id
    THEN CHOOSE st \in states : st.entity_id = entity_id
    ELSE [entity_id |-> entity_id, name |-> NoneV, state |-> NoneV]

HasState(entity_id, states) == \E st \in states : st.entity_id = entity_id

\* The loop body without the test of line 245: a sensor without a location
\* tag is reported with the tag None
SensorInfoNoZoneTest(sensor_entity_id, states, zm, am, failing) ==
    IF sensor_entity_id \in failing THEN <<>>
    ELSE IF ~HasState(sensor_entity_id, states) THEN <<>>
    ELSE LET state   == StateOf(sensor_entity_id, states)
             zone_id == Get(zm, sensor_entity_id, NoneV)
         IN  << [entity_id |-> sensor_entity_id,
                 name      |-> state.name,
                 state     |-> state.state,
                 zone      |-> zone_id,
                 available_actions |-> <<>>] >>

\* The body of the loop for one sensor: <<sensor_info>>, or <<>> when skipped.
\* failing: the sensors whose lookup raises (caught per sensor, line 266).
SensorInfo(sensor_entity_id, states, zm, am, failing) ==
    IF sensor_entity_id \in failing THEN <<>>
    ELSE IF ~HasState(sensor_entity_id, states) THEN <<>>
    ELSE LET state   == StateOf(sensor_entity_id, states)
             zone_id == Get(zm, sensor_entity_id, NoneV)
         IN  IF ~Truthy(zone_id) THEN <<>>
             ELSE << [entity_id |-> sensor_entity_id,
                      name      |-> state.name,
                      state     |-> state.state,
                      zone      |-> zone_id,
                      available_actions |->
                          ValidateZoneActions(zone_id, Get(am, zone_id, <<>>), states)] >>

RECURSIVE CollectSensorData(_, _, _, _, _)
CollectSensorData(sens, states, zm, am, failing) ==
    IF sens = <<>> THEN <<>>
    ELSE SensorInfo(Head(sens), states, zm, am, failing)
         \o CollectSensorData(Tail(sens), states, zm, am, failing)

-----------------------------------------------------------------------------
(* Responses of the reasoning endpoint *)

\* The value of response.json(): json is "dict", "list", "null", or "invalid"
\* when the body is no JSON and json() raises.  A key the dict lacks holds
\* Missing.  parameters is EmptyParams when the key is absent too (the default
\* of .get("parameters", {})).
Params(json, entity_id) == [json |-> json, entity_id |-> entity_id]

EmptyParams == Params("dict", Missing)

Body(json, zone, action, parameters, response) ==
    [json |-> json, zone |-> zone, action |-> action,
     parameters |-> parameters, response |-> response]

Decision(zone, action, parameters) == Body("dict", zone, action, parameters, Missing)

NoBody == Body("none", Missing, Missing, EmptyParams, Missing)

\* not llm_response
Falsy(llm_response) ==
    \/ llm_response.json \in {"null", "none"}
    \/ /\ llm_response.json = "dict"
       /\ llm_response.zone = Missing
       /\ llm_response.action = Missing
       /\ llm_response.parameters = EmptyParams
       /\ llm_response.response = Missing

\* The nested string of the wrapped-text dialect, as JSON text: the tokens
\* "{", "}", ":", "," and the quote, around the tokens of the strings.
Quote == "\""

Quoted(v) == <<Quote>> \o v \o <<Quote>>

\* json.dumps of a decision with a zone and an action
JsonDumps(zone, action) ==
    <<"{">> \o Quoted(<<"zone">>) \o <<":">> \o Quoted(zone) \o <<",">>
            \o Quoted(<<"action">>) \o <<":">> \o Quoted(action) \o <<"}">>

InvalidBody == Body("invalid", Missing, Missing, EmptyParams, Missing)

\* A string literal at the head of s
JsonString(s) ==
    IF s # <<>> /\ Head(s) = Quote /\ \E j \in 2..Len(s) : s[j] = Quote
    THEN LET j == CHOOSE k \in 2..Len(s) :
                      s[k] = Quote /\ \A i \in 2..(k - 1) : s[i] # Quote
         IN  [ok |-> TRUE, value |-> SubSeq(s, 2, j - 1), rest |-> SubSeq(s, j + 1, Len(s))]
    ELSE [ok |-> FALSE, value |-> <<>>, rest |-> <<>>]

SetKey(body, key, value) ==
    CASE key = <<"zone">>     -> [body EXCEPT !.zone = value]
      [] key = <<"action">>   -> [body EXCEPT !.action = value]
      [] key = <<"response">> -> [body EXCEPT !.response = value]
      [] OTHER                -> body

\* The members of an object, after its "{"
RECURSIVE JsonMembers(_, _)
JsonMembers(s, acc) ==
    LET k == JsonString(s)
    IN  IF ~k.ok \/ k.rest = <<>> \/ Head(k.rest) # ":" THEN InvalidBody
        ELSE LET v == JsonString(Tail(k.rest))
             IN  IF ~v.ok \/ v.rest = <<>> THEN InvalidBody
                 ELSE IF v.rest = <<"}">> THEN SetKey(acc, k.value, v.value)
                 ELSE IF Head(v.rest) = ","
                 THEN JsonMembers(Tail(v.rest), SetKey(acc, k.value, v.value))
                 ELSE InvalidBody

\* json.loads of the nested string: the object it denotes, or InvalidBody
JsonLoads(text) ==
    IF text = <<"{", "}">> THEN Decision(Missing, Missing, EmptyParams)
    ELSE IF text # <<>> /\ Head(text) = "{"
    THEN JsonMembers(Tail(text), Decision(Missing, Missing, EmptyParams))
    ELSE InvalidBody

\* JSON text cut short: {"zone":"kitchen"
TruncatedJson == <<"{">> \o Quoted(<<"zone">>) \o <<":">> \o Quoted(<<"kitchen">>)

\* The envelope of the wrapped-text dialect: {"response": text}
Envelope(text) == Body("dict", Missing, Missing, EmptyParams, text)

\* A handler that lets everything but aiohttp.ClientError through
ExceptClientErrorOnly(exc) == exc = "ClientError"

\* `except Exception as exc:` (lines 192, 266, 359, 399, 443)
ExceptException(exc) == exc \in ExceptionClasses

-----------------------------------------------------------------------------
(* ActionExecutor: _execute_action, up to its suspension in async_call *)

NoCall == [zone |-> <<>>, action |-> <<>>, domain |-> <<>>, service |-> <<>>,
           service_data |-> EmptyParams, target |-> "none", entity_ids |-> {}]

\* What a synchronous stretch of the code ends with:
\*   "return": async_update returned,
\*   "post":   it awaits the POST to the endpoint,
\*   "call":   it awaits hass.services.async_call (the call c),
\*   "raise":  exc is raised and no handler has caught it.
\* events are the stages it passed, in order.
Result(outcome, events, exc, c) ==
    [outcome |-> outcome, events |-> events, exc |-> exc, call |-> c]

\* The target taken from the location without the filter of line 425
TargetWholeZone(domain, parameters, zone_entities) ==
    IF parameters.entity_id # Missing
    THEN [target |-> "parameters", entity_ids |-> {parameters.entity_id}]
    ELSE IF zone_entities # {}
    THEN [target |-> "zone", entity_ids |-> zone_entities]
    ELSE [target |-> "none", entity_ids |-> {}]

\* Lines 419-427: the target of the service call
Target(domain, parameters, zone_entities) ==
    LET matching_entities == {e \in zone_entities : StartsWith(e, domain \o <<".">>)}
    IN  IF parameters.entity_id # Missing
        THEN [target |-> "parameters", entity_ids |-> {parameters.entity_id}]
        ELSE IF zone_entities # {} /\ matching_entities # {}
        THEN [target |-> "zone", entity_ids |-> matching_entities]
        ELSE [target |-> "none", entity_ids |-> {}]

\* A custom action handed to the platform as a service of its own name
ExecuteActionCallsCustom(zone, action, parameters, states) ==
    Result("call", <<"execute", "dispatch">>, "",
           [zone         |-> zone,
            action       |-> action,
            domain       |-> IF HasDot(action) THEN SplitDomain(action) ELSE action,
            service      |-> IF HasDot(action) THEN SplitService(action) ELSE action,
            service_data |-> parameters,
            target       |-> "none",
            entity_ids   |-> {}])

\* _execute_action, lines 402-444, up to its await
ExecuteAction(zone, action, parameters, states) ==
    LET zone_entities == GetEntitiesForZone(zone, states)
    IN  IF HasDot(action)
        THEN IF parameters.json # "dict"
             THEN \* {**parameters} raises TypeError, which meets line 443
                  IF ExceptException("TypeError")
                  THEN Result("return", <<"execute", "execute_error">>, "", NoCall)
                  ELSE Result("raise", <<"execute">>, "TypeError", NoCall)
             ELSE LET tg == Target(SplitDomain(action), parameters, zone_entities)
                  IN  Result("call", <<"execute", "dispatch">>, "",
                             [zone         |-> zone,
                              action       |-> action,
                              domain       |-> SplitDomain(action),
                              service      |-> SplitService(action),
                              service_data |-> parameters,
                              target       |-> tg.target,
                              entity_ids   |-> tg.entity_ids])
        ELSE Result("return", <<"execute", "custom">>, "", NoCall)

-----------------------------------------------------------------------------
(* ActionValidator: _process_llm_response *)

\* Only the zone tested at line 380
MissingZoneOnly(zone, action) == ~Truthy(zone)

\* The test of line 380 left out
ZoneAndActionAssumed(zone, action) == FALSE

\* Line 380: not zone or not action
MissingZoneOrAction(zone, action) == ~Truthy(zone) \/ ~Truthy(action)

\* Every identifier of the form domain.operation let through
ActionAvailableOrService(action, valid_actions) ==
    InList(action, valid_actions) \/ HasDot(action)

\* The membership test left out
AcceptsAnyAction(action, valid_actions) == TRUE

\* Line 389, negated: action in valid_actions
ActionAvailable(action, valid_actions) == InList(action, valid_actions)

\* The list the snapshot carries for the zone, reused instead of resolving anew
SnapshotValidActions(zone, am, states, snapshot) ==
    IF \E i \in 1..Len(snapshot) : snapshot[i].zone = zone
    THEN snapshot[CHOOSE i \in 1..Len(snapshot) : snapshot[i].zone = zone].available_actions
    ELSE <<>>

\* The configured list, taken without asking the resolver
ConfiguredActions(zone, am, states, snapshot) == Get(am, zone, <<>>)

\* Lines 385-386: the capability list the decision is tested against.
\* snapshot is the sensor_data of the invocation, which these lines do not read.
CurrentValidActions(zone, am, states, snapshot) ==
    ValidateZoneActions(zone, Get(am, zone, <<>>), states)

\* llm_response.get(key)
DictGet(v) == IF v = Missing THEN NoneV ELSE v

ProcessLLMResponse(llm_response, am, states, snapshot) ==
    IF llm_response.json # "dict"
    THEN Result("return", <<"invalid_format">>, "", NoCall)
    ELSE LET zone       == DictGet(llm_response.zone)
             action     == DictGet(llm_response.action)
             parameters == llm_response.parameters
         IN  IF MissingZoneOrAction(zone, action)
             THEN Result("return", <<"missing_zone_or_action">>, "", NoCall)
             ELSE IF ~IsStr(zone)
             THEN \* zone_id.startswith raises AttributeError, which meets line 399
                  IF ExceptException("AttributeError")
                  THEN Result("return", <<"validate", "process_error">>, "", NoCall)
                  ELSE Result("raise", <<"validate">>, "AttributeError", NoCall)
             ELSE LET valid_actions == CurrentValidActions(zone, am, states, snapshot)
                  IN  IF ~ActionAvailable(action, valid_actions)
                      THEN Result("return", <<"validate", "reject">>, "", NoCall)
                      ELSE LET r == ExecuteAction(zone, action, parameters, states)
                           IN  [r EXCEPT !.events = <<"validate">> \o @]

-----------------------------------------------------------------------------
(* DecisionLoop: async_update, cut at its suspension points *)

\* The request sent before the snapshot is collected
UpdateStartRequestFirst(sens, states, zm, am, url, failing, exc) ==
    IF ~Truthy(url)
    THEN Result("return", <<"no_url", "no_response">>, "", NoCall)
    ELSE Result("post", <<"request", "collect">>, "", NoCall)

\* The test of line 178 left out
UpdateStartNoEmptyCheck(sens, states, zm, am, url, failing, exc) ==
    IF ~Truthy(url)
    THEN Result("return", <<"collect", "no_url", "no_response">>, "", NoCall)
    ELSE Result("post", <<"collect", "request">>, "", NoCall)

\* Lines 174-183 and 334-346: from the entry of async_update to the POST.
\* The sensors in failing raise exc inside the loop body of _collect_sensor_data.
UpdateStart(sens, states, zm, am, url, failing, exc) ==
    LET raised  == \E i \in 1..Len(sens) : sens[i] \in failing
        skipped == IF ExceptException(exc) THEN failing ELSE {}
        sd      == CollectSensorData(sens, states, zm, am, skipped)
    IN  IF raised /\ ~ExceptException(exc)
        THEN \* out of the handler of line 266 and of the one of line 192
             Result("raise", <<"collect">>, exc, NoCall)
        ELSE IF sd = <<>>
        THEN Result("return", <<"collect", "no_sensor_data">>, "", NoCall)
        ELSE IF ~Truthy(url)
        THEN Result("return", <<"collect", "no_url", "no_response">>, "", NoCall)
        ELSE Result("post", <<"collect", "request">>, "", NoCall)

\* The snapshot UpdateStart sends (the local sensor_data)
UpdatePayload(sens, states, zm, am, failing, exc) ==
    CollectSensorData(sens, states, zm, am, IF ExceptException(exc) THEN failing ELSE {})

\* response.json() outside every handler: a body that is no JSON raises out
\* of async_update
OnResponseParseErrorEscapes(status, body, am, states, snapshot) ==
    IF status # 200
    THEN Result("return", <<"bad_status", "no_response">>, "", NoCall)
    ELSE IF body.json = "invalid"
    THEN Result("raise", <<"parse_error">>, "ContentTypeError", NoCall)
    ELSE IF Falsy(body)
    THEN Result("return", <<"response", "no_response">>, "", NoCall)
    ELSE LET r == ProcessLLMResponse(body, am, states, snapshot)
         IN  [r EXCEPT !.events = <<"response">> \o @]

\* Lines 347-351 and 185-190: the endpoint answered with status and body.
OnResponse(status, body, am, states, snapshot) ==
    IF status # 200
    THEN Result("return", <<"bad_status", "no_response">>, "", NoCall)
    ELSE IF body.json = "invalid"
    THEN \* response.json() raises a ClientError subclass, caught at line 356
         Result("return", <<"parse_error", "no_response">>, "", NoCall)
    ELSE IF Falsy(body)
    THEN Result("return", <<"response", "no_response">>, "", NoCall)
    ELSE LET r == ProcessLLMResponse(body, am, states, snapshot)
         IN  [r EXCEPT !.events = <<"response">> \o @]

\* No handler for asyncio.TimeoutError in _communicate_with_llm nor above it
OnErrorTimeoutEscapes(exc) ==
    IF exc = "TimeoutError"
    THEN Result("raise", <<"timeout">>, exc, NoCall)
    ELSE Result("return", <<"client_error", "no_response">>, "", NoCall)

\* The request sent again after a failure
OnErrorRetry(exc) == Result("post", <<"retry", "request">>, "", NoCall)

\* Lines 353-361 and 185-187: the POST raised exc (TimeoutError on expiry of
\* async_timeout.timeout(30), ClientError, or anything else).
OnError(exc) ==
    IF exc = "TimeoutError"
    THEN Result("return", <<"timeout", "no_response">>, "", NoCall)
    ELSE IF exc = "ClientError"
    THEN Result("return", <<"client_error", "no_response">>, "", NoCall)
    ELSE IF ExceptException(exc)
    THEN Result("return", <<"unexpected_error", "no_response">>, "", NoCall)
    ELSE Result("raise", <<>>, exc, NoCall)

\* The call dispatched once more after it has returned
OnCallDoneAgain(exc) ==
    IF exc = ""
    THEN Result("call", <<"called", "dispatch">>, "", NoCall)
    ELSE Result("return", <<"execute_error">>, "", NoCall)

\* No handler around the service call: its exception leaves _execute_action
OnCallDoneEscapes(exc) ==
    IF exc = ""
    THEN Result("return", <<"called">>, "", NoCall)
    ELSE Result("raise", <<>>, exc, NoCall)

\* Lines 430-444: hass.services.async_call returned (exc = "") or raised exc.
OnCallDone(exc) ==
    IF exc = ""
    THEN Result("return", <<"called">>, "", NoCall)
    ELSE IF ExceptException(exc)
    THEN Result("return", <<"execute_error">>, "", NoCall)
    ELSE Result("raise", <<>>, exc, NoCall)

-----------------------------------------------------------------------------
(* Inputs of the runs *)

EntryId == <<"entry1">>
OtherEntryId == <<"entry9">>

\* What _collect_sensor_data meets: the sensors whose lookup raises, and what
CollectFaults ==
    { [failing |-> {}, exc |-> ""],
      [failing |-> {S1}, exc |-> "TypeError"] }

Responses ==
    { [status |-> 500, body |-> Decision(Kitchen, LightTurnOn, EmptyParams)] }
    \cup
    { [status |-> 200, body |-> b] : b \in
        { Decision(Missing, Missing, EmptyParams),
          Decision(Kitchen, LightTurnOn, EmptyParams),
          Decision(Kitchen, LightTurnOn, Params("dict", <<"light", ".", "porch">>)),
          Decision(Kitchen, LightTurnOn, Params("str", Missing)),
          Decision(Kitchen, Notify, EmptyParams),
          Decision(Kitchen, ScriptNight, EmptyParams),
          Decision(Kitchen, VacuumStart, EmptyParams),
          Decision(Kitchen, Missing, EmptyParams),
          Decision(<<>>, Notify, EmptyParams),
          Decision(IntV, Notify, EmptyParams),
          Envelope(JsonDumps(Kitchen, LightTurnOn)),
          Envelope(<<"not", " ", "json">>),
          Envelope(TruncatedJson),
          Body("list", Missing, Missing, EmptyParams, Missing),
          InvalidBody } }

-----------------------------------------------------------------------------
(* State after JerkinsAI.__init__ *)

EntryData(url, sens, zm, am, interval) ==
    [url |-> url, sensors |-> sens, zone_mappings |-> zm,
     action_mappings |-> am, polling_interval |-> interval]

\* No function has been applied
NoFn == [op |-> "none"]

\* The configuration the entry is set up with
InitialEntryData ==
    EntryData(Url, <<S1, S2>>, [x \in {S1, S2} |-> Kitchen],
              [x \in {Kitchen} |-> <<LightTurnOn, Notify>>],
              DEFAULT_POLLING_INTERVAL)

\* No mutation call has succeeded
NoWrites == [zone |-> <<>>, action |-> <<>>]

Entry2 == <<"entry2">>
Entry3 == <<"entry3">>

\* The config entries of the integration
Entries == {EntryId, Entry2, Entry3}

\* An entry that has not been set up
NewInstance == [state |-> "new", timer |-> FALSE, running |-> 0]

\* No call of force_update_service has been made
NoForce == [pc |-> "idle", entry_id |-> NoneV, cur |-> NoneV, ran |-> <<>>,
            start |-> {}, used |-> 0, error |-> FALSE]

\* The stages in which an invocation fails or its decision is rejected
FailureEvents ==
    {"no_sensor_data", "no_url", "bad_status", "timeout", "parse_error",
     "client_error", "unexpected_error", "process_error", "execute_error", "reject"}

\* The stages tr hold a failure
Failed(tr) == \E i \in 1..Len(tr) : tr[i] \in FailureEvents

\* No invocation has failed
NoHistory == [on |-> FALSE, failed |-> FALSE, born |-> [t \in Tasks |-> FALSE]]

InitProgram ==
    /\ registry = <<>>
    /\ services = FALSE
    /\ inst = [e \in Entries |-> NewInstance]
    /\ force = NoForce
    /\ hass_states = {StS1, StLight}
    /\ entry_data = InitialEntryData
    /\ llm_url = entry_data.url
    /\ sensors = entry_data.sensors
    /\ zone_mappings = entry_data.zone_mappings
    /\ action_mappings = entry_data.action_mappings
    /\ unsub = FALSE
    /\ loaded = "new"
    /\ pc = [t \in Tasks |-> "idle"]
    /\ sensor_data = [t \in Tasks |-> <<>>]
    /\ elapsed = [t \in Tasks |-> 0]
    /\ trace = [t \in Tasks |-> <<>>]
    /\ call = [t \in Tasks |-> NoCall]
    /\ escaped = FALSE
    /\ answer = [t \in Tasks |-> NoBody]
    /\ fn = NoFn
    /\ written = NoWrites

\* History is not kept
Init == InitProgram /\ recording = FALSE /\ hist = NoHistory

cfgVars == <<sensors, zone_mappings, action_mappings, entry_data, llm_url>>
taskVars == <<pc, sensor_data, elapsed, trace, call, escaped, answer, hist>>
regVars == <<registry, services, inst, force>>
auxVars == <<recording, fn, written, regVars>>

-----------------------------------------------------------------------------
(* Steps of one invocation of async_update *)

\* The slot a new invocation takes
FreeSlot(t) == pc[t] = "idle" /\ \A u \in Tasks : u < t => pc[u] # "idle"

\* The history of bodies when invocation t has been answered with heard;
\* returned says that t returns in this step.
Heard(t, heard, returned) ==
    IF recording
    THEN [u \in Tasks |-> IF u = t THEN heard
                          ELSE IF returned /\ pc[u] = "idle" THEN NoBody
                          ELSE answer[u]]
    ELSE answer

\* The history when invocation t has gone through the stages tr; returned
\* says that t returns in this step.
Remember(t, tr, returned) ==
    IF hist.on
    THEN [on     |-> TRUE,
          failed |-> hist.failed \/ (returned /\ Failed(tr)),
          born   |-> [hist.born EXCEPT ![t] = IF pc[t] = "idle" THEN hist.failed ELSE @]]
    ELSE hist

\* Invocation t goes on as r says; sd is its local sensor_data, heard the
\* body it has been answered with (NoBody before the answer).
Continue(t, r, sd, heard) ==
    LET tr == (IF pc[t] = "idle" THEN <<>> ELSE trace[t]) \o r.events
    IN  /\ answer' = Heard(t, heard, r.outcome \notin {"post", "call"})
        /\ hist' = Remember(t, tr, r.outcome \notin {"post", "call"})
        /\ CASE r.outcome = "post" ->
                  /\ pc' = [pc EXCEPT ![t] = "deciding"]
                  /\ sensor_data' = [sensor_data EXCEPT ![t] = sd]
                  /\ elapsed' = [elapsed EXCEPT ![t] = 0]
                  /\ trace' = [trace EXCEPT ![t] = tr]
                  /\ UNCHANGED <<call, escaped>>
             [] r.outcome = "call" ->
                  /\ pc' = [pc EXCEPT ![t] = "executing"]
                  /\ sensor_data' = [sensor_data EXCEPT ![t] = sd]
                  /\ elapsed' = [elapsed EXCEPT ![t] = 0]
                  /\ trace' = [trace EXCEPT ![t] = tr]
                  /\ call' = [call EXCEPT ![t] = r.call]
                  /\ UNCHANGED escaped
             [] OTHER ->
                  /\ pc' = [pc EXCEPT ![t] = "idle"]
                  /\ sensor_data' = [sensor_data EXCEPT ![t] = <<>>]
                  /\ elapsed' = [elapsed EXCEPT ![t] = 0]
                  /\ trace' = [u \in Tasks |-> IF u = t THEN tr
                                                ELSE IF pc[u] = "idle" THEN <<>>
                                                ELSE trace[u]]
                  /\ call' = [call EXCEPT ![t] = NoCall]
                  /\ escaped' = (escaped \/ r.outcome = "raise")

BeginUpdate(t, fault) ==
    Continue(t,
             UpdateStart(sensors, hass_states, zone_mappings, action_mappings,
                         llm_url, fault.failing, fault.exc),
             UpdatePayload(sensors, hass_states, zone_mappings, action_mappings,
                           fault.failing, fault.exc),
             NoBody)

\* async_setup_entry / async_setup: subscribe the timer, run the initial update
AsyncSetupEntry(t, fault) ==
    /\ loaded = "new"
    /\ FreeSlot(t)
    /\ loaded' = "loaded"
    /\ unsub' = TRUE
    /\ BeginUpdate(t, fault)
    /\ UNCHANGED <<hass_states, cfgVars, auxVars>>

\* async_track_time_interval fires async_update
TimerTick(t, fault) ==
    /\ unsub
    /\ FreeSlot(t)
    /\ BeginUpdate(t, fault)
    /\ UNCHANGED <<hass_states, cfgVars, unsub, loaded, auxVars>>

\* force_update_service, lines 60-72
ForceUpdateService(t, entry_id, fault) ==
    /\ loaded = "loaded"
    /\ FreeSlot(t)
    /\ IF Truthy(entry_id) /\ entry_id # EntryId
       THEN UNCHANGED taskVars
       ELSE BeginUpdate(t, fault)
    /\ UNCHANGED <<hass_states, cfgVars, unsub, loaded, auxVars>>

\* The endpoint answers the POST of invocation t
LLMResponds(t, status, body) ==
    /\ pc[t] = "deciding"
    /\ elapsed[t] < LLM_TIMEOUT
    /\ Continue(t, OnResponse(status, body, action_mappings, hass_states, sensor_data[t]),
                sensor_data[t], IF status = 200 THEN body ELSE NoBody)
    /\ UNCHANGED <<hass_states, cfgVars, unsub, loaded, auxVars>>

\* The POST of invocation t fails
LLMRaises(t, exc) ==
    /\ pc[t] = "deciding"
    /\ elapsed[t] < LLM_TIMEOUT
    /\ Continue(t, OnError(exc), sensor_data[t], NoBody)
    /\ UNCHANGED <<hass_states, cfgVars, unsub, loaded, auxVars>>

\* async_timeout.timeout(30) expires in invocation t
LLMTimeout(t) ==
    /\ pc[t] = "deciding"
    /\ elapsed[t] >= LLM_TIMEOUT
    /\ Continue(t, OnError("TimeoutError"), sensor_data[t], NoBody)
    /\ UNCHANGED <<hass_states, cfgVars, unsub, loaded, auxVars>>

\* hass.services.async_call of invocation t returns or raises
ServiceCallDone(t, exc) ==
    /\ pc[t] = "executing"
    /\ Continue(t, OnCallDone(exc), sensor_data[t], answer[t])
    /\ UNCHANGED <<hass_states, cfgVars, unsub, loaded, auxVars>>

\* Time passes for the invocations that wait for the endpoint
Waiting == {t \in Tasks : pc[t] = "deciding"}

Tick ==
    /\ Waiting # {}
    /\ \A t \in Waiting : elapsed[t] < LLM_TIMEOUT
    /\ LET most == CHOOSE e \in {elapsed[t] : t \in Waiting} :
                       \A t \in Waiting : elapsed[t] <= e
           d    == IF LLM_TIMEOUT - most < TickStep THEN LLM_TIMEOUT - most ELSE TickStep
       IN  elapsed' = [t \in Tasks |-> IF t \in Waiting THEN elapsed[t] + d ELSE elapsed[t]]
    /\ UNCHANGED <<hass_states, cfgVars, unsub, loaded, auxVars,
                   pc, sensor_data, trace, call, escaped, answer, hist>>

-----------------------------------------------------------------------------
(* Mutation services *)

S3 == <<"sensor", ".", "attic">>

\* s.split(",")
RECURSIVE SplitComma(_)
SplitComma(s) ==
    IF \E i \in 1..Len(s) : s[i] = ","
    THEN LET i == CHOOSE k \in 1..Len(s) : s[k] = "," /\ \A j \in 1..(k - 1) : s[j] # ","
         IN  <<SubSeq(s, 1, i - 1)>> \o SplitComma(SubSeq(s, i + 1, Len(s)))
    ELSE <<s>>

\* s.strip()
RECURSIVE Strip(_)
Strip(s) ==
    IF s = <<>> THEN s
    ELSE IF Head(s) = " " THEN Strip(Tail(s))
    ELSE IF s[Len(s)] = " " THEN Strip(SubSeq(s, 1, Len(s) - 1))
    ELSE s

\* Line 94: [action.strip() for action in actions_str.split(",") if action.strip()]
ParseActions(actions_str) ==
    LET parts == SplitComma(actions_str)
    IN  SelectSeq([i \in 1..Len(parts) |-> Strip(parts[i])], LAMBDA a : a # <<>>)

\* "light.turn_on, notify" and "script.goodnight,"
ActionStrings ==
    { LightTurnOn \o <<",", " ">> \o Notify,
      ScriptNight \o <<",">> }

\* The calls of the two services
ZoneCalls ==
    { [entry_id |-> EntryId, sensor_id |-> S1, zone_id |-> Kitchen],
      [entry_id |-> EntryId, sensor_id |-> S1, zone_id |-> <<>>],
      [entry_id |-> EntryId, sensor_id |-> S3, zone_id |-> Kitchen],
      [entry_id |-> OtherEntryId, sensor_id |-> S1, zone_id |-> Attic] }

ActionCalls ==
    { [entry_id |-> EntryId, zone_id |-> Kitchen, actions |-> a] : a \in ActionStrings }
    \cup
    { [entry_id |-> OtherEntryId, zone_id |-> Attic, actions |-> ScriptNight] }

\* new_data built from the configuration the entry was set up with
NewZoneDataFromSetup(data, zm) == [InitialEntryData EXCEPT !.zone_mappings = zm]

\* new_data passed on without the mapping
NewZoneDataStale(data, zm) == data

\* Lines 205-206: new_data = {**self.entry.data}; new_data[CONF_ZONE_MAPPINGS] = zm
NewZoneData(data, zm) == [data EXCEPT !.zone_mappings = zm]

\* Lines 221-222: new_data = {**self.entry.data}; new_data[CONF_ACTION_MAPPINGS] = am
NewActionData(data, am) == [data EXCEPT !.action_mappings = am]

\* The test of line 197 left out
AsyncUpdateZoneMappingUnchecked(sensor_id, zone_id, sens, zm, data) ==
    [ret |-> TRUE, zone_mappings |-> Put(zm, sensor_id, zone_id),
     data |-> NewZoneData(data, Put(zm, sensor_id, zone_id))]

\* The mapping assigned anew with the one entry, instead of the entry set
AsyncUpdateZoneMappingReplacesAll(sensor_id, zone_id, sens, zm, data) ==
    IF ~InList(sensor_id, sens)
    THEN [ret |-> FALSE, zone_mappings |-> zm, data |-> data]
    ELSE [ret |-> TRUE, zone_mappings |-> Put(<<>>, sensor_id, zone_id),
          data |-> NewZoneData(data, Put(<<>>, sensor_id, zone_id))]

\* async_update_zone_mapping, lines 195-213: what it returns, self.zone_mappings
\* and self.entry.data after it (async_update_entry sets entry.data = new_data)
AsyncUpdateZoneMapping(sensor_id, zone_id, sens, zm, data) ==
    IF ~InList(sensor_id, sens)
    THEN [ret |-> FALSE, zone_mappings |-> zm, data |-> data]
    ELSE LET new_zm == Put(zm, sensor_id, zone_id)
         IN  [ret |-> TRUE, zone_mappings |-> new_zm, data |-> NewZoneData(data, new_zm)]

\* async_update_action_mapping, lines 215-229
AsyncUpdateActionMapping(zone_id, actions, am, data) ==
    LET new_am == Put(am, zone_id, actions)
    IN  [ret |-> TRUE, action_mappings |-> new_am, data |-> NewActionData(data, new_am)]

\* A service that takes this instance whatever entry_id the call names
AddressedWhateverId(entry_id) == TRUE

\* Lines 80-81 and 96-97: hass.data[DOMAIN][entry_id] is this instance
Addressed(entry_id) == entry_id = EntryId

\* update_zone_mappings_service (74-85) and async_update_zone_mapping
UpdateZoneMappingsService(entry_id, sensor_id, zone_id) ==
    /\ loaded = "loaded"
    /\ IF Addressed(entry_id)
       THEN LET r == AsyncUpdateZoneMapping(sensor_id, zone_id, sensors,
                                            zone_mappings, entry_data)
            IN  /\ zone_mappings' = r.zone_mappings
                /\ entry_data' = r.data
                /\ written' = IF recording /\ r.ret
                              THEN [written EXCEPT !.zone = Put(@, sensor_id, zone_id)]
                              ELSE written
       ELSE UNCHANGED <<zone_mappings, entry_data, written>>
    /\ UNCHANGED <<hass_states, sensors, action_mappings, llm_url, unsub, loaded,
                   taskVars, recording, fn, regVars>>

\* update_action_mappings_service (87-101) and async_update_action_mapping
UpdateActionMappingsService(entry_id, zone_id, actions_str) ==
    /\ loaded = "loaded"
    /\ IF Addressed(entry_id)
       THEN LET actions == ParseActions(actions_str)
                r == AsyncUpdateActionMapping(zone_id, actions, action_mappings, entry_data)
            IN  /\ action_mappings' = r.action_mappings
                /\ entry_data' = r.data
                /\ written' = IF recording /\ r.ret
                              THEN [written EXCEPT !.action = Put(@, zone_id, actions)]
                              ELSE written
       ELSE UNCHANGED <<action_mappings, entry_data, written>>
    /\ UNCHANGED <<hass_states, sensors, zone_mappings, llm_url, unsub, loaded,
                   taskVars, recording, fn, regVars>>

-----------------------------------------------------------------------------
(* The platform changes under the integration *)

StateAdded(st) ==
    /\ st \notin hass_states
    /\ hass_states' = hass_states \cup {st}
    /\ UNCHANGED <<cfgVars, unsub, loaded, taskVars, auxVars>>

StateRemoved(st) ==
    /\ st \in hass_states
    /\ hass_states' = hass_states \ {st}
    /\ UNCHANGED <<cfgVars, unsub, loaded, taskVars, auxVars>>

-----------------------------------------------------------------------------

Next ==
    \/ \E t \in Tasks, f \in CollectFaults : AsyncSetupEntry(t, f)
    \/ \E t \in Tasks, f \in CollectFaults : TimerTick(t, f)
    \/ \E t \in Tasks, f \in CollectFaults, e \in {NoneV, EntryId, OtherEntryId} :
          ForceUpdateService(t, e, f)
    \/ \E t \in Tasks, r \in Responses : LLMResponds(t, r.status, r.body)
    \/ \E t \in Tasks, exc \in {"ClientError", "TypeError"} : LLMRaises(t, exc)
    \/ \E t \in Tasks : LLMTimeout(t)
    \/ \E t \in Tasks, exc \in {"", "TypeError"} : ServiceCallDone(t, exc)
    \/ Tick
    \/ \E c \in ZoneCalls : UpdateZoneMappingsService(c.entry_id, c.sensor_id, c.zone_id)
    \/ \E c \in ActionCalls :
          UpdateActionMappingsService(c.entry_id, c.zone_id, c.actions)
    \/ \E st \in StateUniverse : StateAdded(st)
    \/ \E st \in StateUniverse : StateRemoved(st)

Spec == Init /\ [][Next]_vars

\* The same program, with the history of the bodies received kept
InitRecording == InitProgram /\ recording = TRUE /\ hist = NoHistory

RecSpec == InitRecording /\ [][Next]_vars

\* The same program, with the history of the failures kept
InitHistory ==
    InitProgram /\ recording = FALSE /\ hist = [NoHistory EXCEPT !.on = TRUE]

HistSpec == InitHistory /\ [][Next]_vars

-----------------------------------------------------------------------------
(* The registry of instances: async_setup_entry, async_unload_entry, the     *)
(* timers and force_update_service over several config entries.  An          *)
(* invocation of async_update is taken from its start to its return.         *)

\* Invocations of async_update one timer may have in flight at once
MaxRunning == 1

\* The variables of the single instance followed stage by stage
stageVars == <<hass_states, cfgVars, unsub, loaded, taskVars, recording, fn, written>>

\* entry_id in hass.data[DOMAIN]
Registered(entry_id) == InList(entry_id, registry)

\* hass.data[DOMAIN].pop(entry_id)
Pop(reg, entry_id) == SelectSeq(reg, LAMBDA x : x # entry_id)

\* async_unload that leaves the timer subscribed
AsyncUnloadKeepsTimer(i) == [i EXCEPT !.state = "unloaded"]

\* Lines 120-121 and async_unload (164-170): the instance after its unload
AsyncUnload(i) == [i EXCEPT !.state = "unloaded", !.timer = FALSE]

\* Lines 52-57 and 148-160: the instance is put into hass.data[DOMAIN], its
\* timer subscribed, and its initial update started
RegSetupEntry(e) ==
    /\ inst[e].state = "new"
    /\ registry' = Append(registry, e)
    /\ inst' = [inst EXCEPT ![e] = [state |-> "setting_up", timer |-> TRUE,
                                    running |-> 0]]
    /\ UNCHANGED <<services, force, stageVars>>

\* Lines 57-116: the initial update returns and the services are registered
RegSetupDone(e) ==
    /\ inst[e].state = "setting_up"
    /\ inst' = [inst EXCEPT ![e].state = "loaded"]
    /\ services' = TRUE
    /\ UNCHANGED <<registry, force, stageVars>>

\* async_track_time_interval fires async_update of the instance of e
RegTimerTick(e) ==
    /\ inst[e].timer
    /\ inst[e].running < MaxRunning
    /\ inst' = [inst EXCEPT ![e].running = @ + 1]
    /\ UNCHANGED <<registry, services, force, stageVars>>

\* An invocation the timer started returns
RegUpdateReturns(e) ==
    /\ inst[e].running > 0
    /\ inst' = [inst EXCEPT ![e].running = @ - 1]
    /\ UNCHANGED <<registry, services, force, stageVars>>

\* async_unload_entry, lines 118-128
RegUnloadEntry(e) ==
    /\ inst[e].state = "loaded"
    /\ registry' = Pop(registry, e)
    /\ inst' = [inst EXCEPT ![e] = AsyncUnload(@)]
    /\ services' = IF registry' = <<>> THEN FALSE ELSE services
    /\ UNCHANGED <<force, stageVars>>

\* The call of force_update_service that starts with entry_id
ForceCall(entry_id, at, cur, ran) ==
    [pc |-> at, entry_id |-> entry_id, cur |-> cur, ran |-> ran,
     start |-> {e \in Entries : Registered(e)}, used |-> Len(registry),
     error |-> FALSE]

\* force_update_service, lines 60-72, up to its first await
RegForceUpdate(entry_id) ==
    /\ services
    /\ force.pc # "awaiting"
    /\ force' = IF Truthy(entry_id)
                THEN IF Registered(entry_id)
                     THEN ForceCall(entry_id, "awaiting", entry_id, <<entry_id>>)
                     ELSE ForceCall(entry_id, "done", NoneV, <<>>)
                ELSE IF registry = <<>>
                     THEN ForceCall(entry_id, "done", NoneV, <<>>)
                     ELSE ForceCall(entry_id, "awaiting", registry[1], <<registry[1]>>)
    /\ UNCHANGED <<registry, services, inst, stageVars>>

\* The keys of hass.data[DOMAIN] the loop of line 71 has not reached
Unvisited == SelectSeq(registry, LAMBDA x : ~InList(x, force.ran))

\* The async_update the service awaits returns; the loop of lines 71-72 takes
\* its next instance, ends, or finds that the dict has changed its size
\* (RuntimeError: dictionary changed size during iteration)
RegForceGoesOn ==
    /\ force.pc = "awaiting"
    /\ force' = IF Truthy(force.entry_id)
                THEN [force EXCEPT !.pc = "done", !.cur = NoneV]
                ELSE IF Len(registry) # force.used
                THEN [force EXCEPT !.pc = "done", !.cur = NoneV, !.error = TRUE]
                ELSE IF Unvisited = <<>>
                THEN [force EXCEPT !.pc = "done", !.cur = NoneV]
                ELSE [force EXCEPT !.cur = Head(Unvisited),
                                   !.ran = Append(@, Head(Unvisited))]
    /\ UNCHANGED <<registry, services, inst, stageVars>>

\* The identifiers force_update is called with: none, two entries, and one
\* that is no entry
ForceArgs == {NoneV, EntryId, Entry2, OtherEntryId}

RegNext ==
    \/ \E e \in Entries : RegSetupEntry(e)
    \/ \E e \in Entries : RegSetupDone(e)
    \/ \E e \in Entries : RegTimerTick(e)
    \/ \E e \in Entries : RegUpdateReturns(e)
    \/ \E e \in Entries : RegUnloadEntry(e)
    \/ \E a \in ForceArgs : RegForceUpdate(a)
    \/ RegForceGoesOn

RegSpec == Init /\ [][RegNext]_vars

-----------------------------------------------------------------------------
(* What the claims speak of *)

\* The capability set resolved for zone in the current state
FreshSet(zone) ==
    ValidateZoneActions(zone, Get(action_mappings, zone, <<>>), hass_states)

\* body is a decision with a location tag and a capability identifier
WellFormed(body) ==
    /\ body.json = "dict"
    /\ Truthy(body.zone) /\ IsStr(body.zone)
    /\ Truthy(body.action)

\* In this step invocation t enters _execute_action
NewExecute(t) ==
    \/ pc[t] # "executing" /\ pc'[t] = "executing"
    \/ pc[t] = "deciding" /\ pc'[t] = "idle" /\ InList("execute", trace'[t])

\* In this step invocation t returns without a decision and without an action
NoDecisionStep(t) ==
    /\ pc'[t] = "idle"
    /\ call' = call
    /\ ~InList("execute", trace'[t])
    /\ ~InList("validate", trace'[t])
    /\ ~escaped'

Count(x, list) == Cardinality({i \in 1..Len(list) : list[i] = x})

\* Every occurrence of stage b in tr comes after an occurrence of stage a
Precedes(a, b, tr) ==
    \A i \in 1..Len(tr) : tr[i] = b => \E j \in 1..(i - 1) : tr[j] = a

Ordered(tr) ==
    /\ Precedes("collect", "request", tr)
    /\ Precedes("request", "response", tr)
    /\ Precedes("response", "validate", tr)
    /\ Precedes("validate", "execute", tr)
    /\ Precedes("execute", "dispatch", tr)

-----------------------------------------------------------------------------
(* C1.  _execute_action is entered only in the step that handles a response  *)
(* of the endpoint, and only for a decision whose capability identifier is   *)
(* in the capability set resolved, at that moment, for the decision's        *)
(* location.                                                                 *)
C1_NoActionWithoutMembership ==
    [][\A t \in Tasks :
         NewExecute(t) =>
           /\ \E r \in Responses : LLMResponds(t, r.status, r.body)
           /\ \A r \in Responses :
                LLMResponds(t, r.status, r.body) =>
                  /\ r.status = 200
                  /\ WellFormed(r.body)
                  /\ InList(r.body.action, FreshSet(r.body.zone))]_vars

\* A service call is outstanding for an action that is in the resolved set
C1_Witness ==
    \E t \in Tasks :
        /\ pc[t] = "executing"
        /\ call[t].action = LightTurnOn
        /\ InList("execute", trace[t])

(* C2.  When the capability list the snapshot carries for the decision's     *)
(* location differs from the set resolved when the decision arrives, the     *)
(* decision is accepted exactly when its capability identifier is in the     *)
(* set resolved at arrival.                                                  *)
C2_NeverStaleValidate ==
    [][\A t \in Tasks, r \in Responses :
         ( /\ pc[t] = "deciding" /\ pc'[t] # "deciding"
           /\ r.status = 200
           /\ WellFormed(r.body)
           /\ SnapshotValidActions(r.body.zone, action_mappings, hass_states,
                                   sensor_data[t]) # FreshSet(r.body.zone) )
         => IF InList(r.body.action, FreshSet(r.body.zone))
            THEN NewExecute(t) \/ ~LLMResponds(t, r.status, r.body)
            ELSE ~NewExecute(t) \/ ~LLMResponds(t, r.status, r.body)]_vars

\* An action the snapshot did not offer is being executed
C2_Witness ==
    \E t \in Tasks :
        /\ pc[t] = "executing"
        /\ ~InList(call[t].action,
                   SnapshotValidActions(call[t].zone, action_mappings, hass_states,
                                        sensor_data[t]))

(* C3.  At most one invocation of async_update is outstanding at any time.   *)
C3_SingleFlight == Cardinality({t \in Tasks : pc[t] # "idle"}) <= 1

(* C4.  In every invocation the stages come in order: collect, request,      *)
(* response, validate, execute, dispatch; an invocation that waits for the   *)
(* endpoint has built its snapshot, one that waits for the service call has  *)
(* been through all of them.                                                 *)
C4_StagesInOrder ==
    \A t \in Tasks :
         /\ Ordered(trace[t])
         /\ pc[t] = "deciding" => trace[t] = <<"collect", "request">>
         /\ pc[t] = "executing" =>
              trace[t] = <<"collect", "request", "response", "validate",
                           "execute", "dispatch">>

\* An invocation has gone through every stage and returned
C4_Witness ==
    \E t \in Tasks :
        /\ pc[t] = "idle"
        /\ trace[t] = <<"collect", "request", "response", "validate", "execute",
                        "dispatch", "called">>

(* C5.  No exception leaves async_update, and an invocation that is not      *)
(* suspended has returned: its slot holds nothing.                           *)
C5_NoFailureEscapes ==
    /\ ~escaped
    /\ \A t \in Tasks :
         /\ pc[t] \in {"idle", "deciding", "executing"}
         /\ pc[t] = "idle" => call[t] = NoCall /\ sensor_data[t] = <<>>

\* The service call has raised and the invocation has returned
C5_Witness ==
    /\ \A t \in Tasks : pc[t] = "idle"
    /\ \E t \in Tasks :
         trace[t] = <<"collect", "request", "response", "validate", "execute",
                      "dispatch", "execute_error">>

(* C6.  When the endpoint never answers, every invocation that waits for it  *)
(* returns; the wait never lasts beyond the bound of 30; the step in which   *)
(* the bound expires ends the invocation with no decision, no action and no  *)
(* exception.                                                                *)
C6_TimeoutContainment ==
    /\ \A t \in Tasks : (pc[t] = "deciding") ~> (pc[t] = "idle")
    /\ [](\A t \in Tasks : elapsed[t] <= LLM_TIMEOUT)
    /\ [][\A t \in Tasks :
            (pc[t] = "deciding" /\ pc'[t] # "deciding") =>
              /\ LLMTimeout(t)
              /\ elapsed[t] = LLM_TIMEOUT
              /\ NoDecisionStep(t)
              /\ trace'[t] = <<"collect", "request", "timeout", "no_response">>]_vars

\* An invocation has been ended by the timeout
C6_Witness ==
    \E t \in Tasks :
        pc[t] = "idle" /\ trace[t] = <<"collect", "request", "timeout", "no_response">>

(* C7.  A status other than 200, a transport error, a timeout or a body that *)
(* is no JSON ends the invocation in that step with no decision and no       *)
(* action, and no invocation sends more than one request.                    *)
C7_NoDecisionNoRetry ==
    /\ [](\A t \in Tasks : Count("request", trace[t]) <= 1)
    /\ [][\A t \in Tasks :
            (pc[t] = "deciding" /\ ~NoDecisionStep(t)) =>
              /\ \A r \in Responses :
                   (r.status # 200 \/ r.body.json = "invalid")
                     => ~LLMResponds(t, r.status, r.body)
              /\ \A exc \in ExceptionClasses : ~LLMRaises(t, exc)
              /\ ~LLMTimeout(t)]_vars

\* An invocation has been ended by a status other than 200
C7_Witness ==
    \E t \in Tasks :
        pc[t] = "idle" /\ trace[t] = <<"collect", "request", "bad_status", "no_response">>

\* No sensor of the list yields an observation: each raises, has no state, or
\* has no location tag
NoObservation(failing) ==
    \A i \in 1..Len(sensors) :
        \/ sensors[i] \in failing
        \/ ~HasState(sensors[i], hass_states)
        \/ ~Truthy(Get(zone_mappings, sensors[i], NoneV))

(* C8.  An invocation whose snapshot is empty returns in the step that       *)
(* starts it, without a request to the endpoint and without an action; an    *)
(* invocation that is suspended holds a snapshot that is not empty.          *)
C8_EmptySnapshotSkipsEndpoint ==
    /\ [](\A t \in Tasks : pc[t] # "idle" => sensor_data[t] # <<>>)
    /\ [][\A t \in Tasks, f \in CollectFaults :
            ( /\ pc[t] = "idle"
              /\ NoObservation(f.failing)
              /\ \/ AsyncSetupEntry(t, f)
                 \/ TimerTick(t, f)
                 \/ ForceUpdateService(t, EntryId, f)
                 \/ ForceUpdateService(t, NoneV, f) )
            => /\ pc'[t] = "idle"
               /\ trace'[t] = <<"collect", "no_sensor_data">>
               /\ call' = call]_vars

\* An invocation was skipped: one sensor has no state, the other no location tag
C8_Witness ==
    /\ \E t \in Tasks : pc[t] = "idle" /\ trace[t] = <<"collect", "no_sensor_data">>
    /\ HasState(S1, hass_states) /\ zone_mappings[S1] = <<>>
    /\ ~HasState(S2, hass_states)

(* C9.  The step that handles a response enters _execute_action if and only  *)
(* if the response is a decision with a non-empty location tag and a         *)
(* non-empty capability identifier that is in the capability set resolved    *)
(* for that location at that moment.                                         *)
C9_AcceptIff ==
    [][\A t \in Tasks, r \in Responses :
         (pc[t] = "deciding" /\ pc'[t] # "deciding")
         => IF /\ r.status = 200
               /\ WellFormed(r.body)
               /\ InList(r.body.action, FreshSet(r.body.zone))
            THEN NewExecute(t) \/ ~LLMResponds(t, r.status, r.body)
            ELSE ~NewExecute(t) \/ ~LLMResponds(t, r.status, r.body)]_vars

\* A decision was rejected by the validation and the invocation returned
C9_Witness ==
    \E t \in Tasks :
        pc[t] = "idle" /\ trace[t] = <<"collect", "request", "response", "validate", "reject">>

(* C10.  A response that is an envelope whose `response` string parses to a  *)
(* decision is executed exactly when that decision, sent directly, would be: *)
(* when it is well formed and its capability identifier is in the set        *)
(* resolved for its location.                                                *)
C10_WrappedHandledAsDirect ==
    [][\A t \in Tasks, r \in Responses :
         ( /\ pc[t] = "deciding" /\ pc'[t] # "deciding"
           /\ r.status = 200
           /\ r.body.json = "dict"
           /\ r.body.response # Missing
           /\ JsonLoads(r.body.response).json = "dict"
           /\ LLMResponds(t, r.status, r.body) )
         => LET inner == JsonLoads(r.body.response)
            IN  NewExecute(t) <=>
                  (WellFormed(inner) /\ InList(inner.action, FreshSet(inner.zone)))]_vars

-----------------------------------------------------------------------------
(* The pure functions, applied once to arguments drawn from bounded sets *)

\* Longest configured action list
MaxActions == 3

LivingRoom == <<"zone", ".", "living", "_", "room">>

MediaPlay    == <<"media_player", ".", "media_play">>
SwitchToggle == <<"switch", ".", "toggle">>

StVacuum == [entity_id |-> <<"vacuum", ".", "kitchen">>,
             name |-> <<"Kitchen", " ", "Vacuum">>, state |-> <<"docked">>]
StTv     == [entity_id |-> <<"media_player", ".", "tv">>,
             name |-> <<"Living", " ", "Room", " ", "TV">>, state |-> <<"off">>]
StLamp   == [entity_id |-> <<"light", ".", "living", "room", "_", "lamp">>,
             name |-> NoneV, state |-> <<"on">>]

ResolverZones   == {Kitchen, LivingRoom, Attic}
ResolverStates  == {StLight, StVacuum, StTv, StLamp, StS1}
ResolverActions == {LightTurnOn, ScriptNight, VacuumStart, Notify, MediaPlay, SwitchToggle}

\* The lists over S of length at most n
ListsOf(S, n) == UNION {[1..k -> S] : k \in 0..n}

progVars == <<hass_states, cfgVars, unsub, loaded, taskVars, recording, written, regVars>>

\* _validate_zone_actions(zone_id, configured_actions) with hass.states = states
ApplyValidateZoneActions(zone_id, configured_actions, states) ==
    /\ fn' = [op                 |-> "_validate_zone_actions",
              zone_id            |-> zone_id,
              configured_actions |-> configured_actions,
              states             |-> states,
              out                |-> ValidateZoneActions(zone_id, configured_actions, states)]
    /\ UNCHANGED progVars

\* The raw states the two sensors may show; Missing: no State object
RawStates ==
    [door |-> {<<"on">>, <<"ON">>, <<"Open">>, <<"detected">>, <<"off">>,
               <<"unavailable">>, Missing},
     temp |-> {<<"21">>, <<"on">>, Missing}]

\* The states of the platform when S1 shows raw1 and S2 shows raw2
SensorStates(raw1, raw2, others) ==
    others
    \cup (IF raw1 = Missing THEN {}
          ELSE {[entity_id |-> S1, name |-> <<"door">>, state |-> raw1]})
    \cup (IF raw2 = Missing THEN {}
          ELSE {[entity_id |-> S2, name |-> <<"temp">>, state |-> raw2]})

SnapshotInputs ==
    [sensors : {<<S1, S2>>, <<S2, S1>>, <<S1>>},
     states  : {SensorStates(r1, r2, o) : r1 \in RawStates.door, r2 \in RawStates.temp,
                                           o \in SUBSET {StLight}},
     zone_mappings   : { [x \in {S1, S2} |-> Kitchen],
                         (S1 :> <<>>) @@ (S2 :> Kitchen),
                         (S1 :> Kitchen) },
     action_mappings : { [x \in {Kitchen} |-> <<LightTurnOn, Notify>>] },
     failing : {{}, {S2}}]

\* _collect_sensor_data() with the fields of the instance as in a
ApplyCollectSensorData(a) ==
    /\ fn' = [op |-> "_collect_sensor_data",
              sensors |-> a.sensors, states |-> a.states,
              zone_mappings |-> a.zone_mappings, action_mappings |-> a.action_mappings,
              failing |-> a.failing,
              out |-> CollectSensorData(a.sensors, a.states, a.zone_mappings,
                                        a.action_mappings, a.failing)]
    /\ UNCHANGED progVars

\* The sensor lists an instance is configured with
SensorLists == {<<>>, <<S1>>, <<S1, S2>>, <<S2, S3>>}

\* The location mappings an instance holds; a configuration may name sensors
\* that are not in its list
LocationMappings ==
    UNION {[ks -> {Kitchen, Attic}] : ks \in SUBSET {S1, S2, S3}}

\* Instances, and calls of async_update_zone_mapping on them
ZoneMappingInputs ==
    [sensor_id : {S1, S2, S3}, zone_id : {Kitchen, Attic, <<>>},
     sensors : SensorLists, zone_mappings : LocationMappings,
     action_mappings : {<<>>, [x \in {Kitchen} |-> <<LightTurnOn, Notify>>]}]

\* async_update_zone_mapping(sensor_id, zone_id) on an instance whose fields
\* and entry.data are as in a: the instance and its record before and after
ApplyUpdateZoneMapping(a) ==
    LET data == EntryData(Url, a.sensors, a.zone_mappings, a.action_mappings,
                          DEFAULT_POLLING_INTERVAL)
        r    == AsyncUpdateZoneMapping(a.sensor_id, a.zone_id, a.sensors,
                                       a.zone_mappings, data)
    IN  /\ fn' = [op |-> "async_update_zone_mapping",
                  sensor_id |-> a.sensor_id, zone_id |-> a.zone_id,
                  sensors |-> a.sensors,
                  before |-> [zone_mappings |-> a.zone_mappings,
                              action_mappings |-> a.action_mappings,
                              data |-> data],
                  after |-> [zone_mappings |-> r.zone_mappings,
                             action_mappings |-> a.action_mappings,
                             data |-> r.data],
                  ret |-> r.ret]
        /\ UNCHANGED progVars

StSpot == [entity_id |-> <<"light", ".", "kitchen", "_", "spot">>,
           name |-> NoneV, state |-> <<"off">>]

Porch == <<"light", ".", "porch">>

\* Decisions handed to _execute_action, and the states of the platform then
ExecutorInputs ==
    [zone       : ResolverZones,
     action     : {LightTurnOn, MediaPlay, ScriptNight, Notify},
     parameters : {EmptyParams, Params("dict", Porch), Params("str", Missing)},
     states     : SUBSET (ResolverStates \cup {StSpot})]

\* _execute_action(zone, action, parameters) up to its await, with
\* hass.states = states
ApplyExecuteAction(a) ==
    /\ fn' = [op |-> "_execute_action",
              zone |-> a.zone, action |-> a.action, parameters |-> a.parameters,
              states |-> a.states,
              out |-> ExecuteAction(a.zone, a.action, a.parameters, a.states)]
    /\ UNCHANGED progVars

\* One function is applied, once
FnNext ==
    \/ /\ fn = NoFn
       /\ \E z \in ResolverZones, c \in ListsOf(ResolverActions, MaxActions),
             st \in SUBSET ResolverStates : ApplyValidateZoneActions(z, c, st)
    \/ /\ fn = NoFn
       /\ \E a \in SnapshotInputs : ApplyCollectSensorData(a)
    \/ /\ fn = NoFn
       /\ \E a \in ZoneMappingInputs : ApplyUpdateZoneMapping(a)
    \/ /\ fn = NoFn
       /\ \E a \in ExecutorInputs : ApplyExecuteAction(a)

FnSpec == Init /\ [][FnNext]_vars

\* out is a sublist of list: its elements, in the order of list
KeepsOrder(out, list) ==
    \E f \in [1..Len(out) -> 1..Len(list)] :
        /\ \A i \in 1..Len(out) : out[i] = list[f[i]]
        /\ \A i, j \in 1..Len(out) : i < j => f[i] < f[j]

\* The states of the entities associated with the zone
ZoneStates(zone_id, states) ==
    {st \in states : st.entity_id \in GetEntitiesForZone(zone_id, states)}

\* A dotted identifier is realizable in the zone
Realizable(action, zone_id, states) ==
    /\ SplitDomain(action) \in SUPPORTED_DOMAINS
    /\ \/ \E st \in ZoneStates(zone_id, states) : StateDomain(st) = SplitDomain(action)
       \/ SplitDomain(action) \in {<<"script">>, <<"automation">>}

(* C13.  The list _validate_zone_actions returns holds a dotted identifier   *)
(* exactly when the identifier is configured, its domain is in               *)
(* SUPPORTED_DOMAINS, and an entity of the zone is of that domain or the     *)
(* domain is script or automation; the list keeps the configured order and   *)
(* holds nothing that is not configured.                                     *)
C13_ResolverResult ==
    fn.op = "_validate_zone_actions" =>
      /\ \A a \in {x \in ResolverActions : HasDot(x)} :
           InList(a, fn.out) <=>
             (InList(a, fn.configured_actions) /\ Realizable(a, fn.zone_id, fn.states))
      /\ \A i \in 1..Len(fn.out) : InList(fn.out[i], fn.configured_actions)
      /\ KeepsOrder(fn.out, fn.configured_actions)

\* Of script, switch and light configured for the kitchen, with only the
\* kitchen light live, script and light are resolved, in that order
C13_Witness ==
    /\ fn.op = "_validate_zone_actions"
    /\ fn.zone_id = Kitchen
    /\ fn.states = {StLight}
    /\ fn.configured_actions = <<ScriptNight, SwitchToggle, LightTurnOn>>
    /\ fn.out = <<ScriptNight, LightTurnOn>>

(* C14.  An identifier without a dot that is configured for a zone is in the *)
(* list _validate_zone_actions returns, whatever the states of the platform. *)
C14_CustomPassThrough ==
    fn.op = "_validate_zone_actions" =>
      \A i \in 1..Len(fn.configured_actions) :
          ~HasDot(fn.configured_actions[i]) => InList(fn.configured_actions[i], fn.out)

\* The platform holds no state at all and the custom action is resolved
C14_Witness ==
    /\ fn.op = "_validate_zone_actions"
    /\ fn.zone_id = Attic
    /\ fn.states = {}
    /\ fn.configured_actions = <<LightTurnOn, Notify>>
    /\ fn.out = <<Notify>>

\* Python's True and False
TrueV  == <<"<True>">>
FalseV == <<"<False>">>

\* The raw states that denote true for a sensor of the binary class
TruthyTokens == {<<"on">>, <<"true">>, <<"yes">>, <<"open">>, <<"detected">>, <<"home">>}

(* C15.  In the snapshot _collect_sensor_data returns, the state of a        *)
(* binary_sensor is True when its raw state, in lower case, is one of on,    *)
(* true, yes, open, detected, home, and False otherwise; the state of every  *)
(* other sensor is its raw state.                                            *)
C15_BinaryNormalization ==
    fn.op = "_collect_sensor_data" =>
      \A i \in 1..Len(fn.out) :
          LET obs == fn.out[i]
              raw == StateOf(obs.entity_id, fn.states).state
          IN  IF SplitDomain(obs.entity_id) = <<"binary_sensor">>
              THEN obs.state = (IF Lower(raw) \in TruthyTokens THEN TrueV ELSE FalseV)
              ELSE obs.state = raw

\* Lines 376-394 for a response that is an object: whether the decision is
\* accepted, and the list it is tested against (empty when the test of line
\* 380 or the resolver's use of the zone ends the validation before)
Verdict(llm_response, am, states, snapshot) ==
    LET zone   == DictGet(llm_response.zone)
        action == DictGet(llm_response.action)
    IN  IF MissingZoneOrAction(zone, action) \/ ~IsStr(zone)
        THEN [accepted |-> FALSE, valid_actions |-> <<>>]
        ELSE LET valid_actions == CurrentValidActions(zone, am, states, snapshot)
             IN  [accepted      |-> ActionAvailable(action, valid_actions),
                  valid_actions |-> valid_actions]

C17_NoLostUpdate ==
    /\ \A k \in DOMAIN written.zone :
         /\ k \in DOMAIN zone_mappings /\ zone_mappings[k] = written.zone[k]
         /\ k \in DOMAIN entry_data.zone_mappings
         /\ entry_data.zone_mappings[k] = written.zone[k]
    /\ \A k \in DOMAIN written.action :
         /\ k \in DOMAIN action_mappings /\ action_mappings[k] = written.action[k]
         /\ k \in DOMAIN entry_data.action_mappings
         /\ entry_data.action_mappings[k] = written.action[k]

\* A call of each kind has succeeded while an invocation of async_update was
\* outstanding, the location call last, and both effects are in the record
C17_Witness ==
    /\ written.zone = (S1 :> <<>>)
    /\ written.action = (Kitchen :> <<ScriptNight>>)
    /\ entry_data.zone_mappings[S1] = <<>>
    /\ entry_data.action_mappings[Kitchen] = <<ScriptNight>>
    /\ \E t \in Tasks : pc[t] = "deciding"

(* C18.  async_update_zone_mapping(sensor_id, zone_id) returns False for a   *)
(* sensor that is not in the configured list and leaves both mappings and    *)
(* the persisted record as they were; for a configured sensor it returns     *)
(* True and the location mapping differs from the one before in exactly the  *)
(* entry of sensor_id, which is zone_id.                                     *)
C18_ZoneMappingValidated ==
    fn.op = "async_update_zone_mapping" =>
        IF ~InList(fn.sensor_id, fn.sensors)
        THEN /\ fn.ret = FALSE
             /\ fn.after = fn.before
        ELSE /\ fn.ret = TRUE
             /\ DOMAIN fn.after.zone_mappings
                    = DOMAIN fn.before.zone_mappings \cup {fn.sensor_id}
             /\ fn.after.zone_mappings[fn.sensor_id] = fn.zone_id
             /\ \A k \in DOMAIN fn.before.zone_mappings \ {fn.sensor_id} :
                    fn.after.zone_mappings[k] = fn.before.zone_mappings[k]
             /\ fn.after.action_mappings = fn.before.action_mappings

\* The call names a sensor outside the list of an instance that maps other
\* sensors, and is refused
C18_Witness ==
    /\ fn.op = "async_update_zone_mapping"
    /\ fn.sensor_id = S3 /\ fn.sensors = <<S1, S2>>
    /\ fn.before.zone_mappings = [x \in {S1, S2} |-> Kitchen]
    /\ fn.ret = FALSE

(* C19.  Every sensor identifier that is a key of the location mapping is   *)
(* a member of the configured sensor list, in every state reached from a     *)
(* configuration of which this is true, by location updates, capability      *)
(* updates and update cycles.                                                *)
C19_ZoneKeysAreSensors ==
    \A k \in DOMAIN zone_mappings : InList(k, sensors)

\* Both mappings have been updated and an update cycle has run to its end
C19_Witness ==
    /\ zone_mappings = Put(InitialEntryData.zone_mappings, S1, <<>>)
    /\ action_mappings # InitialEntryData.action_mappings
    /\ \E t \in Tasks : pc[t] = "idle" /\ trace[t] # <<>>

\* The record whose two tables are the in-memory mappings zm and am and whose
\* other fields are those of data
WholeRecord(data, zm, am) ==
    EntryData(data.url, data.sensors, zm, am, data.polling_interval)

(* C20.  A mutation call that succeeds leaves a persisted record whose       *)
(* location-mapping and capability-mapping tables are the in-memory mappings *)
(* after the call and whose endpoint URL, sensor list and polling interval   *)
(* are those of the record before the call.                                  *)
C20_WholeRecordPersisted ==
    [][ /\ \A c \in ZoneCalls :
             /\ c.entry_id = EntryId /\ InList(c.sensor_id, sensors)
             /\ UpdateZoneMappingsService(c.entry_id, c.sensor_id, c.zone_id)
             => entry_data' = WholeRecord(entry_data, zone_mappings', action_mappings')
        /\ \A c \in ActionCalls :
             /\ c.entry_id = EntryId
             /\ UpdateActionMappingsService(c.entry_id, c.zone_id, c.actions)
             => entry_data' = WholeRecord(entry_data, zone_mappings', action_mappings')
      ]_vars

\* Both kinds of call have succeeded: the record differs from the one the
\* entry was set up with in both tables and in nothing else
C20_Witness ==
    /\ entry_data.zone_mappings # InitialEntryData.zone_mappings
    /\ entry_data.action_mappings # InitialEntryData.action_mappings
    /\ entry_data = WholeRecord(InitialEntryData, zone_mappings, action_mappings)

\* The configured sensors, in their order, that have a state and a location
\* tag and whose collection does not raise
Observed(sens, states, zm, failing) ==
    SelectSeq(sens, LAMBDA x : /\ \E st \in states : st.entity_id = x
                               /\ x \in DOMAIN zm /\ zm[x] # <<>>
                               /\ x \notin failing)

(* C23.  The snapshot _collect_sensor_data returns has one observation for   *)
(* each configured sensor that has a current state and a location tag (and   *)
(* whose collection raised nothing), in the order of the configured list,    *)
(* with the sensor's own name, state and tag; the observation of a sensor is *)
(* the one it gets when it is the only configured sensor, whatever becomes   *)
(* of the other sensors.                                                     *)
C23_SnapshotConstruction ==
    fn.op = "_collect_sensor_data" =>
        LET kept == Observed(fn.sensors, fn.states, fn.zone_mappings, fn.failing)
        IN  /\ Len(fn.out) = Len(kept)
            /\ \A i \in 1..Len(kept) :
                  /\ fn.out[i].entity_id = kept[i]
                  /\ fn.out[i].zone = fn.zone_mappings[kept[i]]
                  /\ \E st \in fn.states :
                        /\ st.entity_id = kept[i]
                        /\ fn.out[i].state = st.state
                        /\ fn.out[i].name = st.name
                  /\ <<fn.out[i]>> = CollectSensorData(<<kept[i]>>, fn.states,
                                          fn.zone_mappings, fn.action_mappings, {})

\* The first configured sensor has no location tag and is left out; the
\* second, which has a state and a tag, is the only observation
C23_Witness ==
    /\ fn.op = "_collect_sensor_data"
    /\ fn.sensors = <<S1, S2>>
    /\ fn.failing = {}
    /\ fn.zone_mappings = (S1 :> <<>>) @@ (S2 :> Kitchen)
    /\ \E st \in fn.states : st.entity_id = S1
    /\ Len(fn.out) = 1 /\ fn.out[1].entity_id = S2

\* The member entities of the location whose identifier begins with domain.
MembersOfDomain(zone, domain, states) ==
    {st.entity_id : st \in {x \in ZoneStates(zone, states) :
                               StartsWith(x.entity_id, domain \o <<".">>)}}

(* C24.  _execute_action of a domain.operation action with a parameter       *)
(* object dispatches one call: its target is the entity_id of the parameters *)
(* when they have one; otherwise all member entities of the location whose   *)
(* identifier begins with `domain.`, and only them, when there are any;      *)
(* otherwise it has no target.                                               *)
C24_TargetSelection ==
    (fn.op = "_execute_action" /\ HasDot(fn.action) /\ fn.parameters.json = "dict") =>
        LET members == MembersOfDomain(fn.zone, SplitDomain(fn.action), fn.states)
        IN  /\ fn.out.outcome = "call"
            /\ fn.out.call.domain \o <<".">> \o fn.out.call.service = fn.action
            /\ IF fn.parameters.entity_id # Missing
               THEN /\ fn.out.call.target = "parameters"
                    /\ fn.out.call.entity_ids = {fn.parameters.entity_id}
               ELSE IF members # {}
               THEN /\ fn.out.call.target = "zone"
                    /\ fn.out.call.entity_ids = members
               ELSE /\ fn.out.call.target = "none"
                    /\ fn.out.call.entity_ids = {}

\* The location has a lamp and a television, the decision names no entity:
\* light.turn_on goes to the lamp alone
C24_Witness ==
    /\ fn.op = "_execute_action"
    /\ fn.zone = LivingRoom /\ fn.action = LightTurnOn
    /\ fn.parameters = EmptyParams
    /\ {StTv, StLamp} \subseteq fn.states
    /\ fn.out.call.target = "zone"
    /\ fn.out.call.entity_ids = {StLamp.entity_id}

\* The stages of a cycle that executes a custom action
CustomCycle == <<"collect", "request", "response", "validate", "execute", "custom">>

(* C25.  An invocation answered with a decision whose capability identifier  *)
(* has no dot awaits no service call and has dispatched none; when the       *)
(* decision was accepted the invocation has logged the intent and returned,  *)
(* with no error and no exception.                                           *)
C25_CustomNeverDispatches ==
    \A t \in Tasks :
        (answer[t].json = "dict" /\ Truthy(DictGet(answer[t].action))
                                /\ ~HasDot(answer[t].action)) =>
            /\ pc[t] = "idle"
            /\ call[t] = NoCall
            /\ ~InList("dispatch", trace[t])
            /\ InList("execute", trace[t]) => trace[t] = CustomCycle
            /\ ~escaped

\* The decision (kitchen, notify) has been accepted and its intent logged
C25_Witness ==
    \E t \in Tasks :
        /\ answer[t] = Decision(Kitchen, Notify, EmptyParams)
        /\ pc[t] = "idle"
        /\ trace[t] = CustomCycle

(* C27.  The step in which hass.services.async_call raises ends the         *)
(* invocation: it is idle and awaits no call, the failure is logged by the   *)
(* executor and no exception leaves async_update, the call was dispatched    *)
(* once in this cycle, and the sensor list, both mappings, the endpoint URL  *)
(* and the persisted record are what they were.                              *)
C27_ExecutionErrorContained ==
    [][\A t \in Tasks, exc \in ExceptionClasses :
         ServiceCallDone(t, exc) =>
            /\ pc'[t] = "idle"
            /\ call'[t] = NoCall
            /\ trace'[t] = trace[t] \o <<"execute_error">>
            /\ Count("dispatch", trace'[t]) = 1
            /\ ~escaped'
            /\ UNCHANGED cfgVars]_vars

\* The service call of a cycle has raised; the instance is set up, its timer
\* subscribed, its configuration the one it was set up with
C27_Witness ==
    /\ \E t \in Tasks :
         /\ pc[t] = "idle"
         /\ trace[t] = <<"collect", "request", "response", "validate", "execute",
                         "dispatch", "execute_error">>
    /\ unsub /\ loaded = "loaded"
    /\ entry_data = InitialEntryData

(* C28.  An invocation of async_update dispatches at most one platform       *)
(* service call: its stages hold at most one dispatch, exactly one while it  *)
(* awaits the call, and none while it awaits the endpoint.                   *)
C28_AtMostOneDispatch ==
    \A t \in Tasks :
        /\ Count("dispatch", trace[t]) <= 1
        /\ pc[t] = "executing" => Count("dispatch", trace[t]) = 1 /\ call[t] # NoCall
        /\ pc[t] = "deciding" => Count("dispatch", trace[t]) = 0 /\ call[t] = NoCall

\* One cycle has dispatched its call and returned while another one, answered
\* later, awaits its own
C28_Witness ==
    \E t, u \in Tasks :
        /\ pc[t] = "idle"
        /\ trace[t] = <<"collect", "request", "response", "validate", "execute",
                        "dispatch", "called">>
        /\ pc[u] = "executing"
        /\ Count("dispatch", trace[u]) = 1

(* C29.  In the step that dispatches a service call, the call's domain is    *)
(* in SUPPORTED_DOMAINS, its domain.operation identifier is in the           *)
(* capability mapping's entry for the decision's location, and, when the     *)
(* target was taken from the location, every targeted entity identifier      *)
(* begins with `domain.`.                                                    *)
C29_DispatchedCallsAreConfigured ==
    [][\A t \in Tasks :
         (pc[t] # "executing" /\ pc'[t] = "executing") =>
            LET c == call'[t]
            IN  /\ c.domain \in SUPPORTED_DOMAINS
                /\ c.action = c.domain \o <<".">> \o c.service
                /\ InList(c.action, Get(action_mappings, c.zone, <<>>))
                /\ c.target = "zone" =>
                      /\ c.entity_ids # {}
                      /\ \A e \in c.entity_ids : StartsWith(e, c.domain \o <<".">>)
                /\ c.target = "none" => c.entity_ids = {}]_vars

\* script.goodnight, configured by a capability update, is dispatched with no
\* target while the kitchen has a light
C29_Witness ==
    \E t \in Tasks :
        /\ pc[t] = "executing"
        /\ call[t].action = ScriptNight
        /\ call[t].target = "none"
        /\ StLight \in hass_states
        /\ InList(ScriptNight, Get(action_mappings, Kitchen, <<>>))

(* C30.  A step in which an invocation of async_update starts, goes on or    *)
(* returns leaves the sensor list, both mappings, the endpoint URL and the   *)
(* persisted record unchanged; the only steps that change any of them are    *)
(* mutation calls that name this instance, so a call that names another      *)
(* instance changes nothing here.                                            *)
C30_CycleReadsOnly ==
    [][ /\ \A t \in Tasks :
             (pc'[t] # pc[t] \/ trace'[t] # trace[t] \/ elapsed'[t] # elapsed[t])
                => UNCHANGED cfgVars
        /\ cfgVars' # cfgVars =>
             \/ \E c \in ZoneCalls :
                   /\ c.entry_id = EntryId
                   /\ UpdateZoneMappingsService(c.entry_id, c.sensor_id, c.zone_id)
             \/ \E c \in ActionCalls :
                   /\ c.entry_id = EntryId
                   /\ UpdateActionMappingsService(c.entry_id, c.zone_id, c.actions)
      ]_vars

\* A cycle has run through the execution of its decision and the
\* configuration is the one the instance was constructed with
C30_Witness ==
    /\ \E t \in Tasks :
         /\ pc[t] = "idle"
         /\ trace[t] = <<"collect", "request", "response", "validate", "execute",
                         "dispatch", "called">>
    /\ entry_data = InitialEntryData
    /\ sensors = InitialEntryData.sensors
    /\ zone_mappings = InitialEntryData.zone_mappings
    /\ action_mappings = InitialEntryData.action_mappings
    /\ llm_url = InitialEntryData.url

\* In this step an invocation of async_update starts on the instance of e,
\* from its timer or from force_update_service
CycleStarts(e) ==
    \/ inst'[e].running > inst[e].running
    \/ /\ force'.pc = "awaiting" /\ force'.cur = e
       /\ force.pc # "awaiting" \/ force.cur # e

(* C21.  An instance that has been unloaded has no timer subscribed and is   *)
(* not in the registry, and no step starts an invocation of async_update on  *)
(* it: no timer tick, and no force_update call, with or without an entry id. *)
C21_UnloadedNeverCycles ==
    /\ [](\A e \in Entries :
            inst[e].state = "unloaded" => ~inst[e].timer /\ ~Registered(e))
    /\ [][\A e \in Entries : inst[e].state = "unloaded" => ~CycleStarts(e)]_vars

\* One entry has been unloaded while another stays loaded; a force_update
\* without an entry id, called after the unload, has run its cycle on the
\* other entry and ended
C21_Witness ==
    /\ inst[EntryId].state = "unloaded"
    /\ inst[Entry2].state = "loaded"
    /\ force.pc = "done" /\ force.entry_id = NoneV /\ ~force.error
    /\ EntryId \notin force.start
    /\ force.ran = <<Entry2>>

(* C26.  A call of force_update that has ended has run: with the id of an    *)
(* instance registered when it was called, one cycle on that instance and    *)
(* none on another; with no id, one cycle on every instance that was         *)
(* registered from the call to its end, and on no instance more than one;    *)
(* with an id that is not registered, no cycle.                              *)
C26_ForceUpdateOneOrAll ==
    force.pc = "done" =>
        IF ~Truthy(force.entry_id)
        THEN /\ \A e \in force.start : Registered(e) => Count(e, force.ran) = 1
             /\ \A e \in Entries : Count(e, force.ran) <= 1
        ELSE IF force.entry_id \in force.start
        THEN force.ran = <<force.entry_id>>
        ELSE force.ran = <<>>

\* The timer, or force_update for this instance, can start an invocation
TimerCanStart == ENABLED (\E t \in Tasks, f \in CollectFaults : TimerTick(t, f))
ForceCanStart ==
    ENABLED (\E t \in Tasks, f \in CollectFaults : ForceUpdateService(t, EntryId, f))

(* C22.  An invocation that has ended in a failure (nothing collected, bad   *)
(* status, transport error, timeout, parse error, rejection, error while     *)
(* validating or executing) is idle and holds nothing; once an invocation    *)
(* has failed the timer is still subscribed, the instance registered and no  *)
(* exception has escaped; whenever a slot is idle the timer and force_update *)
(* can start an invocation; and an invocation started after a failure begins *)
(* with the collection and, when its snapshot is not empty, sends its        *)
(* request.                                                                  *)
C22_FailureLeavesInstanceReady ==
    /\ [](\A t \in Tasks :
            (pc[t] = "idle" /\ Failed(trace[t])) =>
                call[t] = NoCall /\ sensor_data[t] = <<>>)
    /\ [](hist.failed => unsub /\ loaded = "loaded" /\ ~escaped)
    /\ []((hist.failed /\ \E t \in Tasks : pc[t] = "idle")
            => TimerCanStart /\ ForceCanStart)
    /\ [][\A t \in Tasks :
            (hist.failed /\ pc[t] = "idle" /\ trace'[t] # trace[t] /\ trace'[t] # <<>>) =>
                /\ hist'.born[t]
                /\ Head(trace'[t]) = "collect"
                /\ pc'[t] \in {"idle", "deciding"}
                /\ pc'[t] = "deciding" =>
                      trace'[t] = <<"collect", "request">> /\ sensor_data'[t] # <<>>
                /\ pc'[t] = "idle" =>
                      trace'[t] = <<"collect", "no_sensor_data">>]_vars

\* An invocation that started after another one had failed has run through
\* the execution of its decision
C22_Witness ==
    \E t \in Tasks :
        /\ hist.born[t]
        /\ pc[t] = "idle"
        /\ trace[t] = <<"collect", "request", "response", "validate", "execute",
                        "dispatch", "called">>

\* body is an envelope whose nested string is not JSON
InvalidEnvelope(body) ==
    /\ body.json = "dict"
    /\ body.response # Missing
    /\ JsonLoads(body.response).json = "invalid"

(* C11.  An invocation answered with an envelope whose nested string is not  *)
(* JSON has returned: it is idle, it validated nothing, executed nothing,    *)
(* awaits no service call, and no exception has left async_update.           *)
C11_InvalidNestedIsNoDecision ==
    \A t \in Tasks :
        InvalidEnvelope(answer[t]) =>
          /\ pc[t] = "idle"
          /\ call[t] = NoCall
          /\ ~InList("validate", trace[t])
          /\ ~InList("execute", trace[t])
          /\ ~InList("dispatch", trace[t])
          /\ ~escaped

\* An envelope with a truncated nested string was received and reported
C11_Witness ==
    \E t \in Tasks :
        /\ answer[t] = Envelope(TruncatedJson)
        /\ pc[t] = "idle"
        /\ trace[t] = <<"collect", "request", "response", "missing_zone_or_action">>

\* The stages that log an error
ErrorEvents ==
    {"no_url", "bad_status", "timeout", "parse_error", "client_error",
     "unexpected_error", "process_error", "execute_error"}

(* C12.  An invocation answered with an object that is empty or has no       *)
(* `action` field has returned: it is idle, it validated nothing, executed   *)
(* nothing, awaits no service call, logged no error, and no exception has    *)
(* left async_update.                                                        *)
C12_NoActionFieldNoAction ==
    \A t \in Tasks :
        (answer[t].json = "dict" /\ answer[t].action = Missing) =>
          /\ pc[t] = "idle"
          /\ call[t] = NoCall
          /\ ~InList("validate", trace[t])
          /\ ~InList("execute", trace[t])
          /\ ~InList("dispatch", trace[t])
          /\ \A e \in ErrorEvents : ~InList(e, trace[t])
          /\ ~escaped

\* An object with a zone and no action was received, and the invocation returned
C12_Witness ==
    \E t \in Tasks :
        /\ answer[t] = Decision(Kitchen, Missing, EmptyParams)
        /\ pc[t] = "idle"
        /\ trace[t] = <<"collect", "request", "response", "missing_zone_or_action">>

-----------------------------------------------------------------------------
(* The endpoint never answers: no response and no transport error, so no     *)
(* service call either.  Time passes, and a timeout that is due fires.       *)

NextSilent ==
    \/ \E t \in Tasks, f \in CollectFaults : AsyncSetupEntry(t, f)
    \/ \E t \in Tasks, f \in CollectFaults : TimerTick(t, f)
    \/ \E t \in Tasks, f \in CollectFaults, e \in {NoneV, EntryId, OtherEntryId} :
          ForceUpdateService(t, e, f)
    \/ \E t \in Tasks : LLMTimeout(t)
    \/ Tick
    \/ \E c \in ZoneCalls : UpdateZoneMappingsService(c.entry_id, c.sensor_id, c.zone_id)
    \/ \E c \in ActionCalls :
          UpdateActionMappingsService(c.entry_id, c.zone_id, c.actions)
    \/ \E st \in StateUniverse : StateAdded(st)
    \/ \E st \in StateUniverse : StateRemoved(st)

SilentSpec ==
    /\ Init
    /\ [][NextSilent]_vars
    /\ WF_vars(Tick)
    /\ \A t \in Tasks : WF_vars(LLMTimeout(t))

====
